---- MODULE Spec2Model ----
(***************************************************************************)
(* transform_citations.py: read frontend/src/utils/citations.ts, rewrite   *)
(* every  "quote - author",  into  "quote (author)",  with one re.sub, and *)
(* write the result back to the same path.                                 *)
(*                                                                         *)
(* A text is a sequence of characters; a character is a one-character      *)
(* string.                                                                 *)
(***************************************************************************)
EXTENDS Integers, Sequences, FiniteSets, TLC

DQ == "\""
COMMA == ","
SP == " "
HY == "-"
NL == "\n"
TAB == "\t"
LP == "("
RP == ")"
LETTER == "a"

\* Characters the input texts are drawn from.
Alphabet == {DQ, COMMA, SP, HY, NL, TAB, LETTER}

\* Characters of a text on one line.
LineAlphabet == Alphabet \ {NL}

\* Longest text of the exhaustive text specification.
MaxLen == 6

\* Most characters of quote and author together, one citation.
MaxCite == 4

\* Most characters of the quotes and authors together, two citations.
MaxTwo == 3

\* Most tokens of a file of the run specification.
MaxTok == 4

\* Most tokens of a text of the text specification.
MaxToks == 6

\* Most external writes to the file during one run.
MaxExt == 1

\* Most runs of the substitution on one text.
MaxRuns == 2

\* T[a..b], the empty text when b < a.
Slice(T, a, b) == IF b < a THEN <<>> ELSE SubSeq(T, a, b)

\* The character at position i, or "" past the end of the text.
At(T, i) == IF i >= 1 /\ i <= Len(T) THEN T[i] ELSE ""

(***************************************************************************)
(* The pattern  (".*?)\s+-\s+(.*?)(",)  as the backtracking matcher runs   *)
(* it.  \s is a whitespace character; . is any character but a newline.    *)
(***************************************************************************)
IsSpace(c) == c \in {SP, TAB, NL}

IsDot(c) == c # "" /\ c # NL

\* The first position at or after i that holds no whitespace: where a greedy
\* \s+ that starts at i stops.
RECURSIVE SpaceEnd(_, _)
SpaceEnd(T, i) == IF IsSpace(At(T, i)) THEN SpaceEnd(T, i + 1) ELSE i

NoMatch == [ok |-> FALSE, s |-> 0, g1e |-> 0, g2s |-> 0, g2e |-> 0]

\* (.*?)(",) from p, group 2 being T[p..e-1]: the lazy group takes no
\* character first and one more each time what follows it fails.
RECURSIVE TryG2(_, _, _)
TryG2(T, p, e) ==
  IF At(T, e) = DQ /\ At(T, e + 1) = COMMA THEN e
  ELSE IF IsDot(At(T, e)) THEN TryG2(T, p, e + 1)
  ELSE 0

\* The second \s+ from s, tried as T[s..p-1]: the longest run first, one
\* character given back each time the rest fails; at least one character.
RECURSIVE TryWs2(_, _, _)
TryWs2(T, s, p) ==
  IF p <= s THEN [ok |-> FALSE, g2s |-> 0, g2e |-> 0]
  ELSE LET e == TryG2(T, p, p)
       IN  IF e # 0 THEN [ok |-> TRUE, g2s |-> p, g2e |-> e]
           ELSE TryWs2(T, s, p - 1)

\* The first \s+ from j, tried as T[j..k-1], then the hyphen at k.
RECURSIVE TryWs1(_, _, _)
TryWs1(T, j, k) ==
  IF k <= j THEN [ok |-> FALSE, g2s |-> 0, g2e |-> 0]
  ELSE LET r == IF At(T, k) = HY
                THEN TryWs2(T, k + 1, SpaceEnd(T, k + 1))
                ELSE [ok |-> FALSE, g2s |-> 0, g2e |-> 0]
       IN  IF r.ok THEN r ELSE TryWs1(T, j, k - 1)

\* Mutant of TryG1: group 1 written as ("[^-\n]*?), which stops at a hyphen.
RECURSIVE TryG1_no_hyphen(_, _, _)
TryG1_no_hyphen(T, i, j) ==
  LET r == TryWs1(T, j, SpaceEnd(T, j))
  IN  IF r.ok
      THEN [ok |-> TRUE, s |-> i, g1e |-> j, g2s |-> r.g2s, g2e |-> r.g2e]
      ELSE IF IsDot(At(T, j)) /\ At(T, j) # HY
           THEN TryG1_no_hyphen(T, i, j + 1)
      ELSE NoMatch

\* Group 1 is T[i..j-1], its quote at i: the lazy .*? grows by one character
\* (never a newline) each time the rest of the pattern fails.
RECURSIVE TryG1(_, _, _)
TryG1(T, i, j) ==
  LET r == TryWs1(T, j, SpaceEnd(T, j))
  IN  IF r.ok
      THEN [ok |-> TRUE, s |-> i, g1e |-> j, g2s |-> r.g2s, g2e |-> r.g2e]
      ELSE IF IsDot(At(T, j)) THEN TryG1(T, i, j + 1)
      ELSE NoMatch

\* The match that starts at position i, if there is one.
MatchAt(T, i) == IF At(T, i) = DQ THEN TryG1(T, i, i + 1) ELSE NoMatch

\* The leftmost match that starts at or after pos.
RECURSIVE Search(_, _)
Search(T, pos) ==
  IF pos > Len(T) THEN NoMatch
  ELSE LET m == MatchAt(T, pos)
       IN  IF m.ok THEN m ELSE Search(T, pos + 1)

\* The last position of the span of match m: the comma of group 3.
MatchEnd(m) == m.g2e + 1

\* Mutant of replace_citation: f'{quote_part} - ({author_part}){closing}',
\* the hyphen kept.
replace_citation_keeps_hyphen(T, m) ==
  Slice(T, m.s, m.g1e - 1) \o <<SP, HY, SP, LP>>
    \o Slice(T, m.g2s, m.g2e - 1) \o <<RP>> \o Slice(T, m.g2e, m.g2e + 1)

\* Mutant of replace_citation: f'{quote_part} ({author_part})', the closing
\* quote and comma lost.
replace_citation_drops_closing(T, m) ==
  Slice(T, m.s, m.g1e - 1) \o <<SP, LP>>
    \o Slice(T, m.g2s, m.g2e - 1) \o <<RP>>

\* f'{quote_part} ({author_part}){closing}'
replace_citation(T, m) ==
  LET quote_part == Slice(T, m.s, m.g1e - 1)
      author_part == Slice(T, m.g2s, m.g2e - 1)
      closing == Slice(T, m.g2e, m.g2e + 1)
  IN  quote_part \o <<SP, LP>> \o author_part \o <<RP>> \o closing

\* Mutant of SubFrom: re.sub(..., count=1), only the first match replaced.
SubFrom_first_only(T, pos) ==
  LET m == Search(T, pos)
  IN  IF m.ok
      THEN Slice(T, pos, m.s - 1) \o replace_citation(T, m)
             \o Slice(T, MatchEnd(m) + 1, Len(T))
      ELSE Slice(T, pos, Len(T))

\* Mutant of SubFrom: the replacements of the matches joined, the text
\* between the matches lost.
RECURSIVE SubFrom_only_matches(_, _)
SubFrom_only_matches(T, pos) ==
  LET m == Search(T, pos)
  IN  IF m.ok
      THEN replace_citation(T, m) \o SubFrom_only_matches(T, MatchEnd(m) + 1)
      ELSE <<>>

\* re.sub from position pos on: the text before the next match is copied, the
\* match is replaced, and the search goes on behind the match.
RECURSIVE SubFrom(_, _)
SubFrom(T, pos) ==
  LET m == Search(T, pos)
  IN  IF m.ok
      THEN Slice(T, pos, m.s - 1) \o replace_citation(T, m)
             \o SubFrom(T, MatchEnd(m) + 1)
      ELSE Slice(T, pos, Len(T))

\* re.sub(pattern, replace_citation, content)
Sub(T) == SubFrom(T, 1)

\* The matches re.sub replaces, in the order it finds them.
RECURSIVE MatchesFrom(_, _)
MatchesFrom(T, pos) ==
  LET m == Search(T, pos)
  IN  IF m.ok THEN <<m>> \o MatchesFrom(T, MatchEnd(m) + 1) ELSE <<>>

Matches(T) == MatchesFrom(T, 1)

(***************************************************************************)
(* The run of the script.                                                  *)
(***************************************************************************)
VARIABLES
  fs,       \* the file system: the text stored under each path
  fault,    \* what is wrong with the target file, "none" when nothing is
  pc,       \* the statement the script is at
  content,  \* the script's variable content
  rh,       \* the path open for reading, or Closed
  wh,       \* the path open for writing, or Closed
  out,      \* the lines printed to standard output
  err,      \* the statement that raised, "none" while none has
  src,      \* history: the text the last substitution was given
  subs,     \* history: the number of substitutions made
  ext,      \* history: the texts written by the external writer
  orig,     \* history: the target file's text at the start
  parts     \* history: the quotes and authors the text was built from

vars == <<fs, fault, pc, content, rh, wh, out, err, src, subs, ext, orig, parts>>

file_path == "frontend/src/utils/citations.ts"

\* A second path of the file system, which the script never names.
other_path == "other"

Paths == {file_path, other_path}

Closed == "closed"

SuccessMessage == "Citations transformed successfully!"

\* open(file_path, 'r') fails on a missing or unreadable file, f.read() on
\* bytes that are not UTF-8, open(file_path, 'w') on a file that may not be
\* written, f.write() on a full disk.
Faults == {"none", "missing", "noread", "badenc", "nowrite", "diskfull"}

\* "quote - author",
Cite(Q, A) == <<DQ>> \o Q \o <<SP, HY, SP>> \o A \o <<DQ, COMMA>>

\* The pieces the files of the run specification are built from.
Tokens == {<<DQ>>, <<SP, HY, SP>>, <<DQ, COMMA>>, <<LETTER>>, <<NL>>}

\* The text made of the tokens f[1], ..., f[n].
RECURSIVE Concat(_, _)
Concat(f, n) == IF n = 0 THEN <<>> ELSE Concat(f, n - 1) \o f[n]

\* What the external writer may store in the file.
ExtTexts == {<<LETTER>>, Cite(<<LETTER>>, <<LETTER>>)}

\* The state before the first statement, the target file holding T.
Start(T, f) ==
  /\ fs = [p \in Paths |-> IF p = file_path THEN T ELSE <<>>]
  /\ fault = f
  /\ pc = "open_r"
  /\ content = <<>>
  /\ rh = Closed
  /\ wh = Closed
  /\ out = <<>>
  /\ err = "none"
  /\ src = <<>>
  /\ subs = 0
  /\ ext = <<>>
  /\ orig = T
  /\ parts = <<>>

Init ==
  \E n \in 0..MaxTok : \E t \in [1..n -> Tokens] : \E f \in Faults :
    Start(Concat(t, n), f)

\* Mutant of Raise: the exception is caught and passed over, and the script
\* goes on to its print.
Raise_swallowed(step) ==
  /\ pc' = "print"
  /\ err' = step
  /\ rh' = Closed
  /\ wh' = Closed

\* An exception nothing catches: the with statement closes the file it
\* holds and the process ends.
Raise(step) ==
  /\ pc' = "failed"
  /\ err' = step
  /\ rh' = Closed
  /\ wh' = Closed

\* with open(file_path, 'r', encoding='utf-8') as f:
OpenRead ==
  /\ pc = "open_r"
  /\ IF fault \in {"missing", "noread"}
     THEN Raise("open_r")
     ELSE /\ rh' = file_path
          /\ pc' = "read"
          /\ UNCHANGED <<wh, err>>
  /\ UNCHANGED <<fs, fault, content, out, src, subs, ext, orig, parts>>

\* content = f.read()
Read ==
  /\ pc = "read"
  /\ IF fault = "badenc"
     THEN Raise("read") /\ UNCHANGED content
     ELSE /\ content' = fs[rh]
          /\ pc' = "close_r"
          /\ UNCHANGED <<rh, wh, err>>
  /\ UNCHANGED <<fs, fault, out, src, subs, ext, orig, parts>>

\* Mutant of CloseRead: f = open(...) without with, the file left open.
CloseRead_leaves_open ==
  /\ pc = "close_r"
  /\ pc' = "sub"
  /\ UNCHANGED <<fs, fault, content, rh, wh, out, err, src, subs, ext, orig,
                 parts>>

\* The end of the first with block.
CloseRead ==
  /\ pc = "close_r"
  /\ rh' = Closed
  /\ pc' = "sub"
  /\ UNCHANGED <<fs, fault, content, wh, out, err, src, subs, ext, orig, parts>>

\* content = re.sub(pattern, replace_citation, content)
Substitute ==
  /\ pc = "sub"
  /\ content' = Sub(content)
  /\ src' = content
  /\ subs' = subs + 1
  /\ pc' = "open_w"
  /\ UNCHANGED <<fs, fault, rh, wh, out, err, ext, orig, parts>>

\* Mutant of OpenWrite: the script looks at the file again and raises when
\* it no longer holds what was read.
OpenWrite_guarded ==
  /\ pc = "open_w"
  /\ IF fault = "nowrite" \/ fs[file_path] # src
     THEN Raise("open_w") /\ UNCHANGED fs
     ELSE /\ wh' = file_path
          /\ fs' = [fs EXCEPT ![file_path] = <<>>]
          /\ pc' = "write"
          /\ UNCHANGED <<rh, err>>
  /\ UNCHANGED <<fault, content, out, src, subs, ext, orig, parts>>

\* with open(file_path, 'w', encoding='utf-8') as f:  which empties the file.
OpenWrite ==
  /\ pc = "open_w"
  /\ IF fault = "nowrite"
     THEN Raise("open_w") /\ UNCHANGED fs
     ELSE /\ wh' = file_path
          /\ fs' = [fs EXCEPT ![file_path] = <<>>]
          /\ pc' = "write"
          /\ UNCHANGED <<rh, err>>
  /\ UNCHANGED <<fault, content, out, src, subs, ext, orig, parts>>

\* f.write(content)
Write ==
  /\ pc = "write"
  /\ IF fault = "diskfull"
     THEN Raise("write") /\ UNCHANGED fs
     ELSE /\ fs' = [fs EXCEPT ![wh] = content]
          /\ pc' = "close_w"
          /\ UNCHANGED <<rh, wh, err>>
  /\ UNCHANGED <<fault, content, out, src, subs, ext, orig, parts>>

\* The end of the second with block.
CloseWrite ==
  /\ pc = "close_w"
  /\ wh' = Closed
  /\ pc' = "print"
  /\ UNCHANGED <<fs, fault, content, rh, out, err, src, subs, ext, orig, parts>>

\* print('Citations transformed successfully!')
PrintSuccess ==
  /\ pc = "print"
  /\ out' = Append(out, SuccessMessage)
  /\ pc' = "done"
  /\ UNCHANGED <<fs, fault, content, rh, wh, err, src, subs, ext, orig, parts>>

\* Another process stores t in the target file between the script's read
\* and its write, while the script holds the file open in neither mode.
ExternalWrite(t) ==
  /\ pc \in {"sub", "open_w"}
  /\ Len(ext) < MaxExt
  /\ t # fs[file_path]
  /\ fs' = [fs EXCEPT ![file_path] = t]
  /\ ext' = Append(ext, t)
  /\ UNCHANGED <<fault, pc, content, rh, wh, out, err, src, subs, orig, parts>>

\* One statement of the script.
Step ==
  \/ OpenRead
  \/ Read
  \/ CloseRead
  \/ Substitute
  \/ OpenWrite
  \/ Write
  \/ CloseWrite
  \/ PrintSuccess

Next == Step \/ \E t \in ExtTexts : ExternalWrite(t)

Spec == Init /\ [][Next]_vars

(***************************************************************************)
(* The substitution alone: the state is the one a successful read of T     *)
(* leaves, and the text goes through re.sub.                               *)
(***************************************************************************)
Loaded(T, P) ==
  /\ fs = [p \in Paths |-> IF p = file_path THEN T ELSE <<>>]
  /\ fault = "none"
  /\ pc = "sub"
  /\ content = T
  /\ rh = Closed
  /\ wh = Closed
  /\ out = <<>>
  /\ err = "none"
  /\ src = <<>>
  /\ subs = 0
  /\ ext = <<>>
  /\ orig = T
  /\ parts = P

\* The script is run again on the file its last run wrote: that run's write
\* and the next run's read, nothing failing.
RunAgain ==
  /\ pc = "open_w"
  /\ subs < MaxRuns
  /\ fs' = [fs EXCEPT ![file_path] = content]
  /\ pc' = "sub"
  /\ UNCHANGED <<fault, content, rh, wh, out, err, src, subs, ext, orig, parts>>

\* Every text of at most MaxLen characters, and every text of at most
\* MaxToks tokens.
InitText ==
  \/ \E n \in 0..MaxLen : \E f \in [1..n -> Alphabet] :
       Loaded(Slice(f, 1, n), <<>>)
  \/ \E n \in 0..MaxToks : \E t \in [1..n -> Tokens] :
       Loaded(Concat(t, n), <<>>)

NextText == Substitute

SpecText == InitText /\ [][NextText]_vars

\* One citation, quote and author of at most MaxCite characters together.
InitCite ==
  \E n \in 0..MaxCite : \E k \in 0..n :
    \E Q \in [1..k -> Alphabet] : \E A \in [1..(n - k) -> Alphabet] :
      Loaded(Cite(Slice(Q, 1, k), Slice(A, 1, n - k)),
             <<Slice(Q, 1, k), Slice(A, 1, n - k)>>)

NextCite == Substitute \/ RunAgain

SpecCite == InitCite /\ [][NextCite]_vars

\* Two citations on two lines, their quotes and authors of at most MaxTwo
\* characters together and without a line break.
InitTwo ==
  \E a \in 0..MaxTwo : \E b \in 0..(MaxTwo - a) :
    \E c \in 0..(MaxTwo - a - b) : \E d \in 0..(MaxTwo - a - b - c) :
      \E Q1 \in [1..a -> LineAlphabet] : \E A1 \in [1..b -> LineAlphabet] :
        \E Q2 \in [1..c -> LineAlphabet] : \E A2 \in [1..d -> LineAlphabet] :
          Loaded(Cite(Slice(Q1, 1, a), Slice(A1, 1, b)) \o <<NL>>
                   \o Cite(Slice(Q2, 1, c), Slice(A2, 1, d)),
                 <<Slice(Q1, 1, a), Slice(A1, 1, b),
                   Slice(Q2, 1, c), Slice(A2, 1, d)>>)

NextTwo == Substitute

SpecTwo == InitTwo /\ [][NextTwo]_vars

(***************************************************************************)
(* Properties.                                                             *)
(***************************************************************************)
Mem(c, T) == \E i \in 1..Len(T) : T[i] = c

\* The positions of T where a hyphen with whitespace on both sides starts.
FlankedAt(T) ==
  {i \in 1..(Len(T) - 2) : IsSpace(T[i]) /\ T[i + 1] = HY /\ IsSpace(T[i + 2])}

\* A quote or author text of a string literal on one line.
Plain(T) == ~Mem(DQ, T) /\ ~Mem(NL, T)

EndsInSpace(T) == T # <<>> /\ IsSpace(T[Len(T)])

StartsInSpace(T) == T # <<>> /\ IsSpace(T[1])

EndsInSpaceHyphen(T) ==
  Len(T) >= 2 /\ T[Len(T)] = HY /\ IsSpace(T[Len(T) - 1])

\* "quote (author)",
Rewritten(Q, A) == <<DQ>> \o Q \o <<SP, LP>> \o A \o <<RP, DQ, COMMA>>

\* The substitution has run once on the text built from the parts.
FirstDone == pc = "open_w" /\ subs = 1

SecondDone == pc = "open_w" /\ subs = 2

\* What C1 asks of the quote Q and the author A.
Pre1(Q, A) ==
  /\ Plain(Q) /\ Plain(A)
  /\ FlankedAt(Q) = {} /\ FlankedAt(A) = {}
  /\ ~EndsInSpace(Q) /\ ~StartsInSpace(A)

\* C1 as stated: for Q and A without double quote, newline and
\* whitespace-hyphen-whitespace, Q not ending and A not starting in
\* whitespace, "Q - A", becomes "Q (A)",.
C1_AsStated ==
  (FirstDone /\ Pre1(parts[1], parts[2]))
    => content = Rewritten(parts[1], parts[2])

\* C1, amended: the same, for a Q that does not end in whitespace followed by
\* a hyphen either; "Q - A", then becomes "Q (A)", and a hyphen inside Q
\* that has no whitespace on both sides stays where it is.
C1_CitationRewritten ==
  (FirstDone /\ Pre1(parts[1], parts[2]) /\ ~EndsInSpaceHyphen(parts[1]))
    => content = Rewritten(parts[1], parts[2])

\* "a-a - a", has become "a-a (a)",.
C1_Witness ==
  /\ FirstDone
  /\ parts = <<(<<LETTER, HY, LETTER>>), (<<LETTER>>)>>
  /\ content = <<DQ, LETTER, HY, LETTER, SP, LP, LETTER, RP, DQ, COMMA>>

\* C6 as stated: for every citation string "Q - A", the output of the first
\* run holds no match and the second run returns the first run's output.
C6_AsStated ==
  /\ (FirstDone /\ Plain(parts[1]) /\ Plain(parts[2]))
       => ~Search(content, 1).ok
  /\ (SecondDone /\ Plain(parts[1]) /\ Plain(parts[2])) => content = src

\* The separator is the only hyphen of "Q - A", with whitespace on both sides.
OnlySeparator(Q, A) == FlankedAt(Q \o <<SP, HY, SP>> \o A) = {Len(Q) + 1}

\* C6, amended: for every citation string "Q - A", in which the separator is
\* the only hyphen with whitespace on both sides, the output of the first
\* run holds no match and the second run returns the first run's output.
C6_SecondRunSame ==
  LET ok == /\ Plain(parts[1]) /\ Plain(parts[2])
            /\ OnlySeparator(parts[1], parts[2])
  IN  /\ (FirstDone /\ ok) => ~Search(content, 1).ok
      /\ (SecondDone /\ ok) => content = src

\* "a- - -a", has become "a- (-a)", and the second run left it so.
C6_Witness ==
  /\ SecondDone
  /\ parts = <<(<<LETTER, HY>>), (<<HY, LETTER>>)>>
  /\ src = Rewritten(parts[1], parts[2])
  /\ content = src

\* C3: of two citation strings on two lines each is rewritten, and to what
\* the substitution makes of it alone; the line break between them stays.
C3_BothRewritten ==
  FirstDone =>
    LET one == Cite(parts[1], parts[2])
        two == Cite(parts[3], parts[4])
    IN  /\ Sub(one) # one
        /\ Sub(two) # two
        /\ content = Sub(one) \o <<NL>> \o Sub(two)

\* "a - a", and " - a", on two lines have become "a (a)", and " (a)",.
C3_Witness ==
  /\ FirstDone
  /\ parts = <<(<<LETTER>>), (<<LETTER>>), (<<>>), (<<LETTER>>)>>
  /\ content = Rewritten(parts[1], parts[2]) \o <<NL>>
                 \o Rewritten(parts[3], parts[4])

\* How far the character at position i of the input has moved to the right
\* in the output: each separator that starts at or before i went for the two
\* characters " (", and each author part that ends before i got its ")".
RECURSIVE Shift(_, _, _)
Shift(ms, k, i) ==
  IF k = 0 THEN 0
  ELSE Shift(ms, k - 1, i)
         + (IF ms[k].g1e <= i THEN 2 - (ms[k].g2s - ms[k].g1e) ELSE 0)
         + (IF ms[k].g2e <= i THEN 1 ELSE 0)

\* Position i lies in the separator of one of the matches.
InSeparator(ms, i) ==
  \E k \in 1..Len(ms) : ms[k].g1e <= i /\ i < ms[k].g2s

\* C4: every character outside the matched spans, and inside a span every
\* character of the quote part, the author part and the closing ",, is in the
\* output, unchanged and in order; only each separator has become " (" and
\* a ")" stands before each closing ",.
C4_Frame ==
  FirstDone =>
    LET ms == Matches(src)
        n == Len(ms)
    IN  /\ Len(content) = Len(src) + Shift(ms, n, Len(src))
        /\ \A i \in 1..Len(src) :
             ~InSeparator(ms, i) => content[i + Shift(ms, n, i)] = src[i]
        /\ \A k \in 1..n :
             LET b == (ms[k].g1e - 1) + Shift(ms, n, ms[k].g1e - 1)
                 c == ms[k].g2e + Shift(ms, n, ms[k].g2e)
             IN  /\ content[b + 1] = SP
                 /\ content[b + 2] = LP
                 /\ content[c - 1] = RP

\* a" - a", and a line break has become a" (a)", and the line break.
C4_Witness ==
  /\ FirstDone
  /\ src = <<LETTER>> \o Cite(<<>>, <<LETTER>>) \o <<NL>>
  /\ content = <<LETTER>> \o Rewritten(<<>>, <<LETTER>>) \o <<NL>>

\* C5: what is rewritten has the separator space-hyphen-space, and a text
\* whose hyphens all have something else than one space on each side is left
\* as it is.
C5_LiteralSeparator ==
  FirstDone =>
    LET ms == Matches(src)
    IN  /\ \A k \in 1..Len(ms) :
             Slice(src, ms[k].g1e, ms[k].g2s - 1) = <<SP, HY, SP>>
        /\ (\A i \in 1..Len(src) :
              src[i] = HY => ~(At(src, i - 1) = SP /\ At(src, i + 1) = SP))
             => content = src

\* The number of positions a..b of T that hold c.
Count(T, a, b, c) == Cardinality({i \in a..b : T[i] = c})

\* C10: every matched span holds exactly two double quotes, the opening one
\* and the one of the closing ",, and no line break.
C10_SingleEntry ==
  FirstDone =>
    \A k \in 1..Len(Matches(src)) :
      LET m == Matches(src)[k]
      IN  /\ Count(src, m.s, MatchEnd(m), DQ) = 2
          /\ Count(src, m.s, MatchEnd(m), NL) = 0

\* T holds a substring of the pattern's shape: a double quote, characters of
\* one line, whitespace, a hyphen, whitespace, characters of one line, and ",.
Occurs(T) ==
  \E i \in 1..Len(T) :
    /\ T[i] = DQ
    /\ \E j \in (i + 1)..Len(T) :
         /\ \A x \in (i + 1)..(j - 1) : IsDot(T[x])
         /\ \E k \in (j + 1)..Len(T) :
              /\ T[k] = HY
              /\ \A x \in j..(k - 1) : IsSpace(T[x])
              /\ \E q \in (k + 2)..Len(T) :
                   /\ \A x \in (k + 1)..(q - 1) : IsSpace(T[x])
                   /\ \E e \in q..(Len(T) - 1) :
                        /\ T[e] = DQ
                        /\ T[e + 1] = COMMA
                        /\ \A x \in q..(e - 1) : IsDot(T[x])

\* The statements behind the substitution.
AfterSub == {"open_w", "write", "close_w", "print", "done"}

\* The statements behind the write.
AfterWrite == {"close_w", "print", "done"}

\* C2: a text without an occurrence of the pattern comes out of the
\* substitution as it went in, nothing but the file's faults fails, and the
\* run that ends has written the text back and printed the success message.
C2_NoMatchUnchanged ==
  /\ (pc \in AfterSub /\ ~Occurs(src)) => content = src
  /\ (pc = "failed" /\ ~Occurs(orig)) => (fault # "none" /\ err # "none")
  /\ (pc \in AfterWrite /\ ~Occurs(src)) => fs[file_path] = src
  /\ (pc = "done" /\ ~Occurs(src)) => out = <<SuccessMessage>>

\* The run on the file  " - "a  (no comma behind the closing quote) has
\* ended, the file as it was.
C2_Witness ==
  /\ pc = "done"
  /\ src = <<DQ, SP, HY, SP, DQ, LETTER>>
  /\ ~Occurs(src)
  /\ fs[file_path] = src
  /\ out = <<SuccessMessage>>

\* The statements a fault of the file keeps the run from reaching.
Unreached(f) ==
  CASE f \in {"missing", "noread"} ->
         {"read", "close_r", "sub"} \cup AfterSub
    [] f = "badenc" -> {"close_r", "sub"} \cup AfterSub
    [] f = "nowrite" -> {"write", "close_w", "print", "done"}
    [] f = "diskfull" -> {"close_w", "print", "done"}
    [] OTHER -> {}

\* C7: a failure to open, read or write the file ends the run failed: no
\* statement behind the failing one is reached, no success message is
\* printed, the failed run takes no further step, and a failure of the open
\* for reading or of the read leaves the file as it was.
C7_FailureIsFatal ==
  /\ pc \notin Unreached(fault)
  /\ fault # "none" => out = <<>>
  /\ pc = "failed" =>
       /\ out = <<>>
       /\ ~ENABLED Step
       /\ rh = Closed /\ wh = Closed
       /\ err \in {"open_r", "read"} => (fs[file_path] = orig /\ subs = 0)

\* The file may not be written: the run has failed at the open for writing,
\* the file as it was.
C7_Witness ==
  /\ pc = "failed"
  /\ fault = "nowrite"
  /\ err = "open_w"
  /\ orig = Cite(<<>>, <<LETTER>>)
  /\ fs[file_path] = orig
  /\ out = <<>>

\* C8: read, substitute, write, print, in this order: the file is never open
\* for reading and for writing at once, it is opened for writing only after
\* the read is over, both opens name the same path and no other path is
\* written, the substitution runs once, the message is printed once, after
\* the write is over and the file closed, and the file then holds what the
\* substitution made of the text read.
C8_FixedOrder ==
  /\ ~(rh # Closed /\ wh # Closed)
  /\ rh \in {Closed, file_path} /\ wh \in {Closed, file_path}
  /\ fs[other_path] = <<>>
  /\ rh # Closed => (pc \in {"read", "close_r"} /\ subs = 0)
  /\ wh # Closed => (pc \in {"write", "close_w"} /\ subs = 1)
  /\ subs = (IF pc \in AfterSub \/ err \in {"open_w", "write"} THEN 1 ELSE 0)
  /\ pc \in AfterSub => (src = orig /\ content = Sub(src))
  /\ out # <<>> => (pc = "done" /\ out = <<SuccessMessage>>)
  /\ pc = "done" => (wh = Closed /\ rh = Closed /\ fs[file_path] = Sub(src))

\* The run on  " - a",  has ended: the file holds  " (a)",.
C8_Witness ==
  /\ pc = "done"
  /\ ext = <<>>
  /\ src = Cite(<<>>, <<LETTER>>)
  /\ fs[file_path] = Rewritten(<<>>, <<LETTER>>)
  /\ out = <<SuccessMessage>>

\* C9: an external write between the read and the write changes nothing in
\* the run: it does not fail, its open for writing and its write can be
\* taken, the substitution is that of the text read at the start, and from
\* the write on the file holds it.
C9_LostUpdate ==
  (ext # <<>> /\ fault = "none") =>
    /\ pc # "failed"
    /\ pc = "open_w" => ENABLED OpenWrite
    /\ pc = "write" => ENABLED Write
    /\ pc \in AfterSub => content = Sub(orig)
    /\ pc \in AfterWrite => fs[file_path] = Sub(orig)

\* The file held the letter a, the external writer stored  "a - a",  in it
\* behind the read, and the run has ended with the letter a in the file.
C9_Witness ==
  /\ pc = "done"
  /\ orig = <<LETTER>>
  /\ ext = <<Cite(<<LETTER>>, <<LETTER>>)>>
  /\ fs[file_path] = <<LETTER>>
  /\ out = <<SuccessMessage>>

====
